---- MODULE Spec2Model ----
(***************************************************************************)
(* Model of src/omegacn7500.py: the OmegaCN7500 driver (register map,      *)
(* value checks and accessor methods) on top of a register Transport.      *)
(*                                                                         *)
(* Python numbers are modelled as fixed-point integers with one fractional *)
(* digit: the model value n stands for the Python number n/10, so 999.9 is *)
(* 9999 and the integer 7 is Num(7) = 70.  Pattern and step indices are    *)
(* plain integers.                                                         *)
(***************************************************************************)
EXTENDS Integers, Sequences, FiniteSets, TLC

\* ------------------------------------------------------------------ bounds

\* Calls that get a write through to the device in one behaviour.
MaxWrites == 1
\* Concurrent callers of one instrument instance.
NumThreads == 2
\* Calls each concurrent caller makes.
MaxCalls == 1

\* ------------------------------------------------------------- fixed point

\* Decimals of a setpoint register (read_register(address, 1)).
SetpointDecimals == 1
\* Decimals of every other register used here (read_register(address, 0)).
PlainDecimals == 0

Pow10(d) == 10 ^ d
Scale == Pow10(SetpointDecimals)
Num(n) == n * Scale

\* ------------------------------------------------------------ register map

\* Python's range(a, b) as a sequence (Python index i is TLA+ index i + 1).
Range(a, b) == [i \in 1..(b - a) |-> a + i - 1]

\* Python indexing t[i]: a negative i counts from the end, anything outside
\* -len..len-1 raises IndexError.
IndexOk(t, i) == -Len(t) <= i /\ i < Len(t)
Index(t, i) == IF i >= 0 THEN t[i + 1] ELSE t[Len(t) + i + 1]

setpoint_addresses_shifted ==
    << Range(8192,8200), Range(8200,8208), Range(8208,8216), Range(8216,8224),
       Range(8224,8232), Range(8232,8240), Range(8239,8247), Range(8248,8256) >>
setpoint_addresses ==
    << Range(8192,8200), Range(8200,8208), Range(8208,8216), Range(8216,8224),
       Range(8224,8232), Range(8232,8240), Range(8240,8248), Range(8248,8256) >>
time_addresses ==
    << Range(8320,8328), Range(8328,8336), Range(8336,8344), Range(8344,8352),
       Range(8352,8360), Range(8360,8368), Range(8368,8376), Range(8376,8384) >>
actual_step_addresses == Range(4160, 4168)
additional_cycles_addresses == Range(4176, 4184)
link_pattern_addresses == Range(4192, 4200)

ControlModeAddress == 4101

CONTROL_MODES_swapped ==
    (0 :> "PID" @@ 1 :> "ON/OFF" @@ 2 :> "Program" @@ 3 :> "Manual Tuning")
CONTROL_MODES ==
    (0 :> "PID" @@ 1 :> "ON/OFF" @@ 2 :> "Manual Tuning" @@ 3 :> "Program")

SETPOINT_MAX == 9999
TIME_MAX == Num(900)

Elems(s) == {s[i] : i \in DOMAIN s}
Addresses ==
    UNION {Elems(setpoint_addresses[p]) : p \in DOMAIN setpoint_addresses}
    \cup UNION {Elems(time_addresses[p]) : p \in DOMAIN time_addresses}
    \cup Elems(actual_step_addresses) \cup Elems(additional_cycles_addresses)
    \cup Elems(link_pattern_addresses) \cup {ControlModeAddress}

\* --------------------------------------------------------- value validator

NoError == [exc |-> "none", what |-> ""]
Error(exc, what) == [exc |-> exc, what |-> what]

\* minimalmodbus._checkInt / _checkNumerical: a ValueError naming the
\* quantity when the value is below minvalue or above maxvalue.
checkInt(value, minvalue, maxvalue, description) ==
    IF value < minvalue \/ value > maxvalue
    THEN Error("ValueError", description) ELSE NoError
checkNumerical(value, minvalue, maxvalue, description) ==
    IF value < minvalue \/ value > maxvalue
    THEN Error("ValueError", description) ELSE NoError

checkPatternNumber(patternnumber) ==
    checkInt(patternnumber, 0, 7, "pattern number")
checkStepNumber(stepnumber) ==
    checkInt(stepnumber, 0, 7, "step number")
checkSetpointValue_default(setpointvalue, maxvalue) ==
    checkNumerical(setpointvalue, Num(0), SETPOINT_MAX, "setpoint value")
checkSetpointValue(setpointvalue, maxvalue) ==
    checkNumerical(setpointvalue, Num(0), maxvalue, "setpoint value")
checkTimeValue(timevalue, maxvalue) ==
    checkNumerical(timevalue, Num(0), maxvalue, "time value")

\* --------------------------------------------------------------- transport

\* One Transport request.
ReadReq(address, decimals) ==
    [kind |-> "read", address |-> address, value |-> 0, decimals |-> decimals]
WriteReq(address, value, decimals) ==
    [kind |-> "write", address |-> address, value |-> value, decimals |-> decimals]

\* write_register stores the value scaled by 10^decimals as an integer;
\* read_register returns the stored integer divided by 10^decimals.
write_register(regs, address, value, decimals) ==
    [regs EXCEPT ![address] = (value * Pow10(decimals)) \div Scale]
read_register(regs, address, decimals) ==
    (regs[address] * Scale) \div Pow10(decimals)

\* The Transport fails on the failAt-th request of an operation (0: never).
Fails(reqs, failAt) == failAt \in 1..Len(reqs)
Attempted(reqs, failAt) ==
    IF Fails(reqs, failAt) THEN SubSeq(reqs, 1, failAt) ELSE reqs
Succeeded(reqs, failAt) ==
    IF Fails(reqs, failAt) THEN SubSeq(reqs, 1, failAt - 1) ELSE reqs

RECURSIVE ApplyAll(_, _)
ApplyAll(regs, reqs) ==
    IF reqs = <<>> THEN regs
    ELSE LET r == Head(reqs)
             next == IF r.kind = "write"
                     THEN write_register(regs, r.address, r.value, r.decimals)
                     ELSE regs
         IN ApplyAll(next, Tail(reqs))

\* ------------------------------------------------------------------- state

VARIABLES
    registers,      \* device memory: register address -> stored integer
    setpoint_max,   \* the instance's attribute setpoint_max
    time_max,       \* the instance's attribute time_max
    lastOp,         \* the call that has just ended, until its caller takes the result
    lastWrite,      \* the last call that got a write through to the device
    writes,         \* number of calls that got a write through to the device
    thread,         \* concurrent callers: the call each one is in
    link            \* requests on the serial link awaiting their response

vars == <<registers, setpoint_max, time_max, lastOp, lastWrite, writes, thread, link>>

Threads == 1..NumThreads
Idle == [op |-> "idle", pattern |-> 0, reqs |-> <<>>, done |-> 0,
         waiting |-> FALSE, calls |-> 0]

\* What a call hands back to its caller.
None == [type |-> "NoneType"]
Number(n) == [type |-> "number", value |-> n]
Str(s) == [type |-> "str", text |-> s]
Raised == [type |-> "exception"]
TransportFailure == Error("TransportFailure", "")

NoCall == [op |-> "none", args |-> <<>>, outcome |-> NoError,
           returned |-> None, calls |-> <<>>]

Init ==
    /\ registers = [a \in Addresses |-> 0]
    /\ setpoint_max = SETPOINT_MAX
    /\ time_max = TIME_MAX
    /\ lastOp = NoCall
    /\ lastWrite = NoCall
    /\ writes = 0
    /\ thread = [t \in Threads |-> Idle]
    /\ link = {}

Wrote(reqs) == \E i \in DOMAIN reqs : reqs[i].kind = "write"

\* A call of the sequential caller, run to its end.  `error` is what its
\* checks raise before any request, `reqs` the Transport requests it then
\* makes one after the other, `late` what it raises once they are answered,
\* `returned` what it returns.  The Transport may fail any one request: its
\* exception is not caught, so it ends the call there.
Finish(op, args, error, reqs, late, returned) ==
    \E failAt \in 0..Len(reqs) :
      LET through == Succeeded(reqs, failAt)
          outcome == IF error # NoError THEN error
                     ELSE IF Fails(reqs, failAt) THEN TransportFailure
                     ELSE late
          call == [op |-> op, args |-> args, outcome |-> outcome,
                   returned |-> IF outcome = NoError THEN returned ELSE Raised,
                   calls |-> Attempted(reqs, failAt)]
      IN /\ lastOp = NoCall
         /\ writes + (IF Wrote(through) THEN 1 ELSE 0) <= MaxWrites
         /\ writes' = writes + (IF Wrote(through) THEN 1 ELSE 0)
         /\ registers' = ApplyAll(registers, through)
         /\ lastOp' = call
         /\ lastWrite' = IF Wrote(through) THEN call ELSE lastWrite
         /\ UNCHANGED <<setpoint_max, time_max, thread, link>>

\* The caller takes the result (or the exception) and is free to call again.
Return ==
    /\ lastOp # NoCall
    /\ lastOp' = NoCall
    /\ UNCHANGED <<registers, setpoint_max, time_max, lastWrite, writes, thread, link>>

FirstError(e1, e2) == IF e1 # NoError THEN e1 ELSE e2

\* ------------------------------------------------------ instance attributes

set_setpoint_max(value) ==
    /\ lastOp = NoCall
    /\ setpoint_max' = value
    /\ UNCHANGED <<registers, time_max, lastOp, lastWrite, writes, thread, link>>

set_time_max(value) ==
    /\ lastOp = NoCall
    /\ time_max' = value
    /\ UNCHANGED <<registers, setpoint_max, lastOp, lastWrite, writes, thread, link>>

\* ------------------------------------------------------------ control mode

\* The device's own side: its control mode is changed at the front panel, or
\* its firmware reports a code the driver does not know.
DeviceModeCodes == {0, 1, 2, 3, 9}
device_control_mode(code) ==
    /\ lastOp = NoCall
    /\ registers' = [registers EXCEPT ![ControlModeAddress] = code]
    /\ lastWrite' = NoCall
    /\ UNCHANGED <<setpoint_max, time_max, lastOp, writes, thread, link>>

get_control_mode ==
    LET mode_value == read_register(registers, ControlModeAddress, PlainDecimals)
        known == \E k \in DOMAIN CONTROL_MODES : mode_value = Num(k)
        key == CHOOSE k \in DOMAIN CONTROL_MODES : mode_value = Num(k)
    IN Finish("get_control_mode", <<>>, NoError,
              <<ReadReq(ControlModeAddress, PlainDecimals)>>,
              IF known THEN NoError ELSE Error("ValueError", "parse control mode"),
              Str(CONTROL_MODES[key]))

set_control_mode(value) ==
    LET error == checkInt(value, 0, 3, "control mode")
    IN Finish("set_control_mode", [value |-> value], error,
              IF error = NoError
              THEN <<WriteReq(ControlModeAddress, Num(value), PlainDecimals)>>
              ELSE <<>>,
              NoError, None)

\* ----------------------------------------------------- pattern step fields

get_pattern_step_setpoint_request_plain(pattern, step) ==
    ReadReq(Index(Index(setpoint_addresses, pattern), step), PlainDecimals)
get_pattern_step_setpoint_request(pattern, step) ==
    ReadReq(Index(Index(setpoint_addresses, pattern), step), SetpointDecimals)

get_pattern_step_setpoint(pattern, step) ==
    LET error == FirstError(checkPatternNumber(pattern), checkStepNumber(step))
        req == get_pattern_step_setpoint_request(pattern, step)
    IN Finish("get_pattern_step_setpoint", [pattern |-> pattern, step |-> step],
              error, IF error = NoError THEN <<req>> ELSE <<>>, NoError,
              Number(read_register(registers, req.address, req.decimals)))

set_pattern_step_setpoint(pattern, step, value) ==
    LET error == FirstError(checkPatternNumber(pattern),
                     FirstError(checkStepNumber(step),
                                checkSetpointValue(value, setpoint_max)))
        address == Index(Index(setpoint_addresses, pattern), step)
    IN Finish("set_pattern_step_setpoint",
              [pattern |-> pattern, step |-> step, value |-> value], error,
              IF error = NoError
              THEN <<WriteReq(address, value, SetpointDecimals)>> ELSE <<>>,
              NoError, None)

get_pattern_step_time(pattern, step) ==
    LET error == FirstError(checkPatternNumber(pattern), checkStepNumber(step))
        address == Index(Index(time_addresses, pattern), step)
    IN Finish("get_pattern_step_time", [pattern |-> pattern, step |-> step],
              error,
              IF error = NoError THEN <<ReadReq(address, PlainDecimals)>> ELSE <<>>,
              NoError, Number(read_register(registers, address, PlainDecimals)))

set_pattern_step_time(pattern, step, value) ==
    LET error == FirstError(checkPatternNumber(pattern),
                     FirstError(checkStepNumber(step),
                                checkTimeValue(value, time_max)))
        address == Index(Index(time_addresses, pattern), step)
    IN Finish("set_pattern_step_time",
              [pattern |-> pattern, step |-> step, value |-> value], error,
              IF error = NoError
              THEN <<WriteReq(address, value, PlainDecimals)>> ELSE <<>>,
              NoError, None)

\* -------------------------------------------------------- pattern metadata

NotAPattern == Str("Not a valid pattern number, must be 0-7")
\* Python's `value in range(a, b)` for a fixed-point value.
InRange(value, a, b) == \E i \in Elems(Range(a, b)) : value = Num(i)

get_pattern_actual_step(pattern) ==
    IF 0 <= pattern /\ pattern <= 7
    THEN LET address == Index(actual_step_addresses, pattern)
         IN Finish("get_pattern_actual_step", [pattern |-> pattern], NoError,
                   <<ReadReq(address, PlainDecimals)>>, NoError,
                   Number(read_register(registers, address, PlainDecimals)))
    ELSE Finish("get_pattern_actual_step", [pattern |-> pattern], NoError,
                <<>>, NoError, NotAPattern)

set_pattern_actual_step(pattern, value) ==
    LET args == [pattern |-> pattern, value |-> value]
    IN IF 0 <= pattern /\ pattern <= 7 /\ Num(0) <= value /\ value <= Num(7)
       THEN Finish("set_pattern_actual_step", args, NoError,
                   <<WriteReq(Index(actual_step_addresses, pattern), value,
                              PlainDecimals)>>, NoError, None)
       ELSE IF pattern \notin Elems(Range(0, 8))
       THEN Finish("set_pattern_actual_step", args, NoError, <<>>, NoError,
                   NotAPattern)
       ELSE IF ~InRange(value, 0, 8)
       THEN Finish("set_pattern_actual_step", args, NoError, <<>>, NoError,
                   Str("Not a valid step number, must be 0-7"))
       ELSE Finish("set_pattern_actual_step", args, NoError, <<>>, NoError, None)

get_pattern_additional_cycles(pattern) ==
    IF 0 <= pattern /\ pattern <= 7
    THEN LET address == Index(additional_cycles_addresses, pattern)
         IN Finish("get_pattern_additional_cycles", [pattern |-> pattern],
                   NoError, <<ReadReq(address, PlainDecimals)>>, NoError,
                   Number(read_register(registers, address, PlainDecimals)))
    ELSE Finish("get_pattern_additional_cycles", [pattern |-> pattern], NoError,
                <<>>, NoError, NotAPattern)

set_pattern_additional_cycles(pattern, value) ==
    LET args == [pattern |-> pattern, value |-> value]
    IN IF 0 <= pattern /\ pattern <= 7 /\ Num(0) <= value /\ value <= Num(99)
       THEN Finish("set_pattern_additional_cycles", args, NoError,
                   <<WriteReq(Index(additional_cycles_addresses, pattern), value,
                              PlainDecimals)>>, NoError, None)
       ELSE IF pattern \notin Elems(Range(0, 8))
       THEN Finish("set_pattern_additional_cycles", args, NoError, <<>>, NoError,
                   NotAPattern)
       ELSE IF value > Num(99)
       THEN Finish("set_pattern_additional_cycles", args, NoError, <<>>, NoError,
                   Str("Not a valid number of additional cycles, must be 0-99"))
       ELSE Finish("set_pattern_additional_cycles", args, NoError, <<>>, NoError,
                   None)

get_pattern_link_topattern(pattern) ==
    IF 0 <= pattern /\ pattern <= 7
    THEN LET address == Index(link_pattern_addresses, pattern)
         IN Finish("get_pattern_link_topattern", [pattern |-> pattern], NoError,
                   <<ReadReq(address, PlainDecimals)>>, NoError,
                   Number(read_register(registers, address, PlainDecimals)))
    ELSE Finish("get_pattern_link_topattern", [pattern |-> pattern], NoError,
                <<>>, NoError, NotAPattern)

set_pattern_link_topattern(pattern, value) ==
    LET args == [pattern |-> pattern, value |-> value]
    IN IF 0 <= pattern /\ pattern <= 7 /\ Num(0) <= value /\ value <= Num(8)
       THEN Finish("set_pattern_link_topattern", args, NoError,
                   <<WriteReq(Index(link_pattern_addresses, pattern), value,
                              PlainDecimals)>>, NoError, None)
       ELSE IF pattern \notin Elems(Range(0, 8))
       THEN Finish("set_pattern_link_topattern", args, NoError, <<>>, NoError,
                   NotAPattern)
       ELSE IF ~InRange(value, 0, 9)
       THEN Finish("set_pattern_link_topattern", args, NoError, <<>>, NoError,
                   Str("Not a valid value, must be pattern 0-7 or 8 for OFF"))
       ELSE Finish("set_pattern_link_topattern", args, NoError, <<>>, NoError,
                   None)

\* ------------------------------------------------------------------ inputs

IndexInputs == {-1, 0, 7, 8}
AllIndexInputs == -1..8
SetpointInputs == {-1, 0, 5005, SETPOINT_MAX, SETPOINT_MAX + 1, 12000}
SetpointMaxInputs == {5005, SETPOINT_MAX}
TimeInputs == {-10, 0, Num(60), TIME_MAX, TIME_MAX + 10}
TimeMaxInputs == {Num(60), TIME_MAX}
StepValueInputs == {Num(-1), Num(0), Num(7), Num(8)}
CyclesInputs == {Num(-1), Num(0), Num(99), Num(100)}
LinkInputs == {Num(-1), Num(0), Num(8), Num(9)}
ModeInputs == -1..4

\* ----------------------------- control mode and per-pattern metadata calls

NextControl ==
    \/ \E c \in DeviceModeCodes : device_control_mode(c)
    \/ get_control_mode
    \/ \E v \in ModeInputs : set_control_mode(v)
    \/ \E p \in IndexInputs : get_pattern_actual_step(p)
    \/ \E p \in IndexInputs, v \in StepValueInputs : set_pattern_actual_step(p, v)
    \/ \E p \in IndexInputs : get_pattern_additional_cycles(p)
    \/ \E p \in IndexInputs, v \in CyclesInputs : set_pattern_additional_cycles(p, v)
    \/ \E p \in IndexInputs : get_pattern_link_topattern(p)
    \/ \E p \in IndexInputs, v \in LinkInputs : set_pattern_link_topattern(p, v)
    \/ Return

SpecControl == Init /\ [][NextControl]_vars

\* --------------------------------------------------- pattern step calls

NextStep ==
    \/ \E v \in SetpointMaxInputs : set_setpoint_max(v)
    \/ \E v \in TimeMaxInputs : set_time_max(v)
    \/ \E p \in IndexInputs, s \in IndexInputs : get_pattern_step_setpoint(p, s)
    \/ \E p \in IndexInputs, s \in IndexInputs, v \in SetpointInputs :
          set_pattern_step_setpoint(p, s, v)
    \/ \E p \in IndexInputs, s \in IndexInputs : get_pattern_step_time(p, s)
    \/ \E p \in IndexInputs, s \in IndexInputs, v \in TimeInputs :
          set_pattern_step_time(p, s, v)
    \/ Return

SpecStep == Init /\ [][NextStep]_vars

\* ------------------------------ step reads over the whole index range

NextAddress ==
    \/ \E p \in AllIndexInputs, s \in AllIndexInputs : get_pattern_step_setpoint(p, s)
    \/ \E p \in AllIndexInputs, s \in AllIndexInputs : get_pattern_step_time(p, s)
    \/ Return

SpecAddress == Init /\ [][NextAddress]_vars

\* ------------------------------------------------ whole-pattern methods

\* The 19 values of one pattern: sp[i + 1] and ti[i + 1] are the arguments
\* sp<i> and ti<i>.
PatternFields(sp, ti, actual_step, additional_cycles, link_pattern) ==
    [sp |-> sp, ti |-> ti, actual_step |-> actual_step,
     additional_cycles |-> additional_cycles, link_pattern |-> link_pattern]

get_all_pattern_variables_requests(pattern) ==
    << ReadReq(Index(Index(setpoint_addresses, pattern), 0), SetpointDecimals),
       ReadReq(Index(Index(setpoint_addresses, pattern), 1), SetpointDecimals),
       ReadReq(Index(Index(setpoint_addresses, pattern), 2), SetpointDecimals),
       ReadReq(Index(Index(setpoint_addresses, pattern), 3), SetpointDecimals),
       ReadReq(Index(Index(setpoint_addresses, pattern), 4), SetpointDecimals),
       ReadReq(Index(Index(setpoint_addresses, pattern), 5), SetpointDecimals),
       ReadReq(Index(Index(setpoint_addresses, pattern), 6), SetpointDecimals),
       ReadReq(Index(Index(setpoint_addresses, pattern), 7), SetpointDecimals),
       ReadReq(Index(Index(time_addresses, pattern), 0), PlainDecimals),
       ReadReq(Index(Index(time_addresses, pattern), 1), PlainDecimals),
       ReadReq(Index(Index(time_addresses, pattern), 2), PlainDecimals),
       ReadReq(Index(Index(time_addresses, pattern), 3), PlainDecimals),
       ReadReq(Index(Index(time_addresses, pattern), 4), PlainDecimals),
       ReadReq(Index(Index(time_addresses, pattern), 5), PlainDecimals),
       ReadReq(Index(Index(time_addresses, pattern), 6), PlainDecimals),
       ReadReq(Index(Index(time_addresses, pattern), 7), PlainDecimals),
       ReadReq(Index(actual_step_addresses, pattern), PlainDecimals),
       ReadReq(Index(additional_cycles_addresses, pattern), PlainDecimals),
       ReadReq(Index(link_pattern_addresses, pattern), PlainDecimals) >>

\* The 19 values are read and printed; nothing is returned, and a pattern
\* outside 0..7 falls through the `if` without a word.
get_all_pattern_variables(pattern) ==
    IF 0 <= pattern /\ pattern <= 7
    THEN Finish("get_all_pattern_variables", [pattern |-> pattern], NoError,
                get_all_pattern_variables_requests(pattern), NoError, None)
    ELSE Finish("get_all_pattern_variables", [pattern |-> pattern], NoError,
                <<>>, NoError, None)

set_all_pattern_variables_requests_paired(pattern, f) ==
    << WriteReq(Index(Index(setpoint_addresses, pattern), 0), f.sp[1], SetpointDecimals),
       WriteReq(Index(Index(time_addresses, pattern), 0), f.ti[1], PlainDecimals),
       WriteReq(Index(Index(setpoint_addresses, pattern), 1), f.sp[2], SetpointDecimals),
       WriteReq(Index(Index(time_addresses, pattern), 1), f.ti[2], PlainDecimals),
       WriteReq(Index(Index(setpoint_addresses, pattern), 2), f.sp[3], SetpointDecimals),
       WriteReq(Index(Index(time_addresses, pattern), 2), f.ti[3], PlainDecimals),
       WriteReq(Index(Index(setpoint_addresses, pattern), 3), f.sp[4], SetpointDecimals),
       WriteReq(Index(Index(time_addresses, pattern), 3), f.ti[4], PlainDecimals),
       WriteReq(Index(Index(setpoint_addresses, pattern), 4), f.sp[5], SetpointDecimals),
       WriteReq(Index(Index(time_addresses, pattern), 4), f.ti[5], PlainDecimals),
       WriteReq(Index(Index(setpoint_addresses, pattern), 5), f.sp[6], SetpointDecimals),
       WriteReq(Index(Index(time_addresses, pattern), 5), f.ti[6], PlainDecimals),
       WriteReq(Index(Index(setpoint_addresses, pattern), 6), f.sp[7], SetpointDecimals),
       WriteReq(Index(Index(time_addresses, pattern), 6), f.ti[7], PlainDecimals),
       WriteReq(Index(Index(setpoint_addresses, pattern), 7), f.sp[8], SetpointDecimals),
       WriteReq(Index(Index(time_addresses, pattern), 7), f.ti[8], PlainDecimals),
       WriteReq(Index(actual_step_addresses, pattern), f.actual_step, PlainDecimals),
       WriteReq(Index(additional_cycles_addresses, pattern), f.additional_cycles, PlainDecimals),
       WriteReq(Index(link_pattern_addresses, pattern), f.link_pattern, PlainDecimals) >>
set_all_pattern_variables_requests(pattern, f) ==
    << WriteReq(Index(Index(setpoint_addresses, pattern), 0), f.sp[1], SetpointDecimals),
       WriteReq(Index(Index(setpoint_addresses, pattern), 1), f.sp[2], SetpointDecimals),
       WriteReq(Index(Index(setpoint_addresses, pattern), 2), f.sp[3], SetpointDecimals),
       WriteReq(Index(Index(setpoint_addresses, pattern), 3), f.sp[4], SetpointDecimals),
       WriteReq(Index(Index(setpoint_addresses, pattern), 4), f.sp[5], SetpointDecimals),
       WriteReq(Index(Index(setpoint_addresses, pattern), 5), f.sp[6], SetpointDecimals),
       WriteReq(Index(Index(setpoint_addresses, pattern), 6), f.sp[7], SetpointDecimals),
       WriteReq(Index(Index(setpoint_addresses, pattern), 7), f.sp[8], SetpointDecimals),
       WriteReq(Index(Index(time_addresses, pattern), 0), f.ti[1], PlainDecimals),
       WriteReq(Index(Index(time_addresses, pattern), 1), f.ti[2], PlainDecimals),
       WriteReq(Index(Index(time_addresses, pattern), 2), f.ti[3], PlainDecimals),
       WriteReq(Index(Index(time_addresses, pattern), 3), f.ti[4], PlainDecimals),
       WriteReq(Index(Index(time_addresses, pattern), 4), f.ti[5], PlainDecimals),
       WriteReq(Index(Index(time_addresses, pattern), 5), f.ti[6], PlainDecimals),
       WriteReq(Index(Index(time_addresses, pattern), 6), f.ti[7], PlainDecimals),
       WriteReq(Index(Index(time_addresses, pattern), 7), f.ti[8], PlainDecimals),
       WriteReq(Index(actual_step_addresses, pattern), f.actual_step, PlainDecimals),
       WriteReq(Index(additional_cycles_addresses, pattern), f.additional_cycles, PlainDecimals),
       WriteReq(Index(link_pattern_addresses, pattern), f.link_pattern, PlainDecimals) >>

\* No check at all: the tables are indexed with the pattern as given, which
\* raises IndexError outside -8..7 and counts from the end for -8..-1.
set_all_pattern_variables(pattern, f) ==
    IF ~IndexOk(setpoint_addresses, pattern)
    THEN Finish("set_all_pattern_variables", [pattern |-> pattern, fields |-> f],
                Error("IndexError", "tuple index out of range"), <<>>, NoError, None)
    ELSE Finish("set_all_pattern_variables", [pattern |-> pattern, fields |-> f],
                NoError, set_all_pattern_variables_requests(pattern, f), NoError, None)

\* Field values: all in range and pairwise distinct, and the same with one
\* field beyond its documented range.
GoodFields ==
    PatternFields([i \in 1..8 |-> Num(100 + i) + 5], [i \in 1..8 |-> Num(10 + i)],
                  Num(3), Num(42), Num(8))
BadFieldInputs ==
    { [GoodFields EXCEPT !.sp[1] = 12000],
      [GoodFields EXCEPT !.ti[4] = TIME_MAX + 10],
      [GoodFields EXCEPT !.actual_step = Num(8)],
      [GoodFields EXCEPT !.additional_cycles = Num(100)],
      [GoodFields EXCEPT !.link_pattern = Num(9)] }

\* set_all_pattern_variables alone, on field values in range.
NextSetAll ==
    \/ \E p \in IndexInputs : set_all_pattern_variables(p, GoodFields)
    \/ Return

SpecSetAll == Init /\ [][NextSetAll]_vars

\* Both whole-pattern methods, on any field values.
NextPattern ==
    \/ \E p \in IndexInputs, f \in {GoodFields} \cup BadFieldInputs :
          set_all_pattern_variables(p, f)
    \/ \E p \in IndexInputs : get_all_pattern_variables(p)
    \/ Return

SpecPattern == Init /\ [][NextPattern]_vars

\* ------------------------------------------------------ concurrent callers

\* Nothing in the class takes a lock: each caller's thread runs the method's
\* statements on its own, one Transport request after the other, and a
\* request is on the link from the moment it is sent until it is answered.
Running(t) == thread[t].op # "idle"

call_set_all_pattern_variables(t, pattern, f) ==
    /\ ~Running(t)
    /\ thread[t].calls < MaxCalls
    /\ IndexOk(setpoint_addresses, pattern)
    /\ thread' = [thread EXCEPT ![t] =
                     [op |-> "set_all_pattern_variables", pattern |-> pattern,
                      reqs |-> set_all_pattern_variables_requests(pattern, f),
                      done |-> 0, waiting |-> FALSE, calls |-> @.calls + 1]]
    /\ UNCHANGED <<registers, setpoint_max, time_max, lastOp, lastWrite, writes, link>>

call_get_all_pattern_variables(t, pattern) ==
    /\ ~Running(t)
    /\ thread[t].calls < MaxCalls
    /\ 0 <= pattern /\ pattern <= 7
    /\ thread' = [thread EXCEPT ![t] =
                     [op |-> "get_all_pattern_variables", pattern |-> pattern,
                      reqs |-> get_all_pattern_variables_requests(pattern),
                      done |-> 0, waiting |-> FALSE, calls |-> @.calls + 1]]
    /\ UNCHANGED <<registers, setpoint_max, time_max, lastOp, lastWrite, writes, link>>

\* The thread's next read_register / write_register puts its frame on the link.
send(t) ==
    /\ Running(t) /\ ~thread[t].waiting
    /\ thread' = [thread EXCEPT ![t].waiting = TRUE]
    /\ link' = link \cup {[thread |-> t, req |-> thread[t].reqs[thread[t].done + 1]]}
    /\ UNCHANGED <<registers, setpoint_max, time_max, lastOp, lastWrite, writes>>

\* The response arrives, or the Transport gives up and raises.
receive(t, ok) ==
    /\ Running(t) /\ thread[t].waiting
    /\ LET req == thread[t].reqs[thread[t].done + 1]
           last == thread[t].done + 1 = Len(thread[t].reqs)
       IN /\ link' = link \ {[thread |-> t, req |-> req]}
          /\ registers' = IF ok THEN ApplyAll(registers, <<req>>) ELSE registers
          /\ thread' = [thread EXCEPT ![t] =
                           IF ok /\ ~last
                           THEN [@ EXCEPT !.done = @ + 1, !.waiting = FALSE]
                           ELSE [Idle EXCEPT !.calls = thread[t].calls]]
    /\ UNCHANGED <<setpoint_max, time_max, lastOp, lastWrite, writes>>

ThreadPatternInputs == {0, 7}

NextThreads ==
    \/ \E t \in Threads, p \in ThreadPatternInputs :
          call_set_all_pattern_variables(t, p, GoodFields)
    \/ \E t \in Threads, p \in ThreadPatternInputs :
          call_get_all_pattern_variables(t, p)
    \/ \E t \in Threads : send(t)
    \/ \E t \in Threads, ok \in BOOLEAN : receive(t, ok)

SpecThreads == Init /\ [][NextThreads]_vars

\* ------------------------------------------------------------------ claims

ValidIndex(i) == 0 <= i /\ i <= 7
InvalidArgument(outcome) == outcome.exc = "ValueError" /\ outcome.what # "parse control mode"
ParseError(outcome) == outcome = Error("ValueError", "parse control mode")

StepOps == {"get_pattern_step_setpoint", "set_pattern_step_setpoint",
            "get_pattern_step_time", "set_pattern_step_time"}
MetadataGetOps == {"get_pattern_actual_step", "get_pattern_additional_cycles",
                   "get_pattern_link_topattern"}
MetadataSetOps == {"set_pattern_actual_step", "set_pattern_additional_cycles",
                   "set_pattern_link_topattern"}
PatternOps == {"get_all_pattern_variables", "set_all_pattern_variables"}

\* The documented layout of one pattern, in the documented order of the 19
\* fields: sp0..sp7, ti0..ti7, actual_step, additional_cycles, link_pattern.
FieldAddress(p, i) ==
    IF i <= 8 THEN 8192 + 8 * p + (i - 1)
    ELSE IF i <= 16 THEN 8320 + 8 * p + (i - 9)
    ELSE IF i = 17 THEN 4160 + p
    ELSE IF i = 18 THEN 4176 + p
    ELSE 4192 + p
FieldDecimals(i) == IF i <= 8 THEN 1 ELSE 0
FieldValue(f, i) ==
    IF i <= 8 THEN f.sp[i]
    ELSE IF i <= 16 THEN f.ti[i - 8]
    ELSE IF i = 17 THEN f.actual_step
    ELSE IF i = 18 THEN f.additional_cycles
    ELSE f.link_pattern
FieldInRange(f, i) ==
    /\ Num(0) <= FieldValue(f, i)
    /\ FieldValue(f, i) <= (IF i <= 8 THEN setpoint_max
                            ELSE IF i <= 16 THEN time_max
                            ELSE IF i = 17 THEN Num(7)
                            ELSE IF i = 18 THEN Num(99)
                            ELSE Num(8))

\* C1: a per-step or per-pattern call with a pattern index or a step index
\* outside 0..7 makes no Transport call at all.
C1_InvalidIndexNoTransport ==
    /\ lastOp.op \in StepOps
         => ( (~ValidIndex(lastOp.args.pattern) \/ ~ValidIndex(lastOp.args.step))
                => lastOp.calls = <<>> /\ lastOp.outcome # NoError )
    /\ lastOp.op \in MetadataGetOps \cup MetadataSetOps \cup PatternOps
         => ( ~ValidIndex(lastOp.args.pattern) => lastOp.calls = <<>> )

\* C2: with pattern and step in 0..7, set_pattern_step_setpoint(p, s, v) and
\* set_pattern_step_time(p, s, v) fail with InvalidArgument and no Transport
\* call when v is outside 0..setpoint_max (0..time_max), and otherwise make
\* exactly one write of v to the step's address (and then succeed, unless the
\* Transport itself fails that write).
C2_StepValueChecked ==
    /\ lastOp.op = "set_pattern_step_setpoint"
       /\ ValidIndex(lastOp.args.pattern) /\ ValidIndex(lastOp.args.step)
         => LET v == lastOp.args.value
                a == 8192 + 8 * lastOp.args.pattern + lastOp.args.step
            IN IF Num(0) <= v /\ v <= setpoint_max
               THEN /\ lastOp.outcome \in {NoError, TransportFailure}
                    /\ lastOp.calls = <<WriteReq(a, v, 1)>>
               ELSE InvalidArgument(lastOp.outcome) /\ lastOp.calls = <<>>
    /\ lastOp.op = "set_pattern_step_time"
       /\ ValidIndex(lastOp.args.pattern) /\ ValidIndex(lastOp.args.step)
         => LET v == lastOp.args.value
                a == 8320 + 8 * lastOp.args.pattern + lastOp.args.step
            IN IF Num(0) <= v /\ v <= time_max
               THEN /\ lastOp.outcome \in {NoError, TransportFailure}
                    /\ lastOp.calls = <<WriteReq(a, v, 0)>>
               ELSE InvalidArgument(lastOp.outcome) /\ lastOp.calls = <<>>

\* C2 witness: with setpoint_max lowered to 500.5, a setpoint of exactly 500.5
\* has been written by one Transport call.
C2_Witness ==
    /\ setpoint_max = 5005
    /\ lastOp.op = "set_pattern_step_setpoint"
    /\ lastOp.args = [pattern |-> 7, step |-> 0, value |-> 5005]
    /\ lastOp.outcome = NoError
    /\ lastOp.calls = <<WriteReq(8248, 5005, 1)>>

\* C3: set_all_pattern_variables checks each of its 19 values: with any of
\* them out of range it fails with InvalidArgument before any Transport call,
\* so it never writes an out-of-range value.
C3_SetAllValidates ==
    lastOp.op = "set_all_pattern_variables" /\ ValidIndex(lastOp.args.pattern)
      => /\ (\E i \in 1..19 : ~FieldInRange(lastOp.args.fields, i))
              => InvalidArgument(lastOp.outcome) /\ lastOp.calls = <<>>
         /\ \A n \in DOMAIN lastOp.calls : FieldInRange(lastOp.args.fields, n)

\* C4: a per-pattern metadata call with a pattern outside 0..7, or a set with
\* a value outside its range, fails with InvalidArgument.
C4_MetadataRaises ==
    LET lim == IF lastOp.op = "set_pattern_actual_step" THEN Num(7)
               ELSE IF lastOp.op = "set_pattern_additional_cycles" THEN Num(99)
               ELSE Num(8)
    IN /\ lastOp.op \in MetadataGetOps \cup MetadataSetOps
            => (~ValidIndex(lastOp.args.pattern) => InvalidArgument(lastOp.outcome))
       /\ lastOp.op \in MetadataSetOps
            => (lastOp.args.value < Num(0) \/ lastOp.args.value > lim
                  => InvalidArgument(lastOp.outcome))

\* C5: get_all_pattern_variables(p), called after set_all_pattern_variables
\* wrote 19 in-range values to pattern p and with no write since, returns
\* those 19 values, each under the field it was written as.
C5_SetAllGetAllRoundTrip ==
    [][ ( /\ lastWrite.op = "set_all_pattern_variables"
          /\ lastWrite.outcome = NoError
          /\ ValidIndex(lastWrite.args.pattern)
          /\ \A i \in 1..19 : FieldInRange(lastWrite.args.fields, i)
          /\ lastOp'.op = "get_all_pattern_variables"
          /\ lastOp'.outcome = NoError
          /\ lastOp'.args.pattern = lastWrite.args.pattern )
        => lastOp'.returned = [type |-> "record", value |-> lastWrite.args.fields]
      ]_vars

\* C6: get_pattern_step_setpoint(p, s), called after
\* set_pattern_step_setpoint(p, s, v) succeeded and with no write since,
\* returns v.
C6_StepSetpointRoundTrip ==
    [][ ( /\ lastWrite.op = "set_pattern_step_setpoint"
          /\ lastWrite.outcome = NoError
          /\ lastOp'.op = "get_pattern_step_setpoint"
          /\ lastOp'.outcome = NoError
          /\ lastOp'.args.pattern = lastWrite.args.pattern
          /\ lastOp'.args.step = lastWrite.args.step )
        => lastOp'.returned = Number(lastWrite.args.value)
      ]_vars

\* C6 witness: 500.5 written to pattern 7 step 7 has been read back.
C6_Witness ==
    /\ lastWrite.op = "set_pattern_step_setpoint"
    /\ lastWrite.outcome = NoError
    /\ lastWrite.args = [pattern |-> 7, step |-> 7, value |-> 5005]
    /\ lastOp.op = "get_pattern_step_setpoint"
    /\ lastOp.args = [pattern |-> 7, step |-> 7]
    /\ lastOp.returned = Number(5005)

\* A caller that has made a request of its call and has not ended the call.
Accessing(t) == Running(t) /\ (thread[t].done > 0 \/ thread[t].waiting)

\* C7: register accesses of concurrent callers are serialized: at most one
\* request is on the link at any time, and no caller is in the middle of its
\* call (some requests answered, others still to make) while another is.
C7_Serialized ==
    /\ Cardinality(link) <= 1
    /\ \A t, u \in Threads : t # u => ~(Accessing(t) /\ Accessing(u))

\* C8: for pattern p and step s in 0..7 the address read for a step setpoint
\* is 8192 + 8p + s and for a step time 8320 + 8p + s, and within each table
\* the addresses strictly increase in (pattern, step) order (so no two agree).
C8_StepAddresses ==
    /\ lastOp.op = "get_pattern_step_setpoint" /\ lastOp.calls # <<>>
         => lastOp.calls[1].address = 8192 + 8 * lastOp.args.pattern + lastOp.args.step
    /\ lastOp.op = "get_pattern_step_time" /\ lastOp.calls # <<>>
         => lastOp.calls[1].address = 8320 + 8 * lastOp.args.pattern + lastOp.args.step
    /\ lastOp.op \in StepOps
       /\ ValidIndex(lastOp.args.pattern) /\ ValidIndex(lastOp.args.step)
         => Len(lastOp.calls) = 1
    /\ \A p, q, s, r \in 0..7 :
          (p < q \/ (p = q /\ s < r))
            => /\ Index(Index(setpoint_addresses, p), s)
                    < Index(Index(setpoint_addresses, q), r)
               /\ Index(Index(time_addresses, p), s)
                    < Index(Index(time_addresses, q), r)

\* C8 witness: the setpoint of pattern 6 step 0 has been read at 8240.
C8_Witness ==
    /\ lastOp.op = "get_pattern_step_setpoint"
    /\ lastOp.args = [pattern |-> 6, step |-> 0]
    /\ lastOp.calls = <<ReadReq(8240, 1)>>

\* The documented names of the control-mode codes.
ModeName(c) ==
    CASE c = 0 -> "PID" [] c = 1 -> "ON/OFF" [] c = 2 -> "Manual Tuning"
      [] c = 3 -> "Program"

C10_SetAllOrderAndAbort ==
    [][ lastOp'.op = "set_all_pattern_variables" /\ ValidIndex(lastOp'.args.pattern)
        => LET p == lastOp'.args.pattern
               f == lastOp'.args.fields
               k == Len(lastOp'.calls)
               through == IF lastOp'.outcome = NoError THEN 19 ELSE k - 1
           IN /\ lastOp'.outcome \in {NoError, TransportFailure}
              /\ k \in 1..19
              /\ lastOp'.outcome = NoError => k = 19
              /\ \A i \in 1..k :
                    lastOp'.calls[i] =
                       WriteReq(FieldAddress(p, i), FieldValue(f, i), FieldDecimals(i))
              /\ \A i \in 1..through :
                    read_register(registers', FieldAddress(p, i), FieldDecimals(i))
                       = FieldValue(f, i)
              /\ \A a \in Addresses :
                    (\A i \in 1..through : FieldAddress(p, i) # a)
                       => registers'[a] = registers[a]
      ]_vars

\* C10 witness: the Transport failed the 9th write (ti0) of pattern 7: sp7 is
\* written, ti0 and the metadata are not.
C10_Witness ==
    /\ lastOp.op = "set_all_pattern_variables"
    /\ lastOp.args.pattern = 7
    /\ lastOp.outcome = TransportFailure
    /\ Len(lastOp.calls) = 9
    /\ registers[8255] = Num(108) + 5
    /\ registers[8376] = 0
    /\ registers[4167] = 0

====
